---- MODULE Spec2Model ----
(***************************************************************************)
(* ChatLLMService (quivr_api/modules/chat_llm_service/chat_llm_service.py) *)
(*                                                                         *)
(* State: the user's usage ledger, the ChatLLMService instances (the       *)
(* result of __init__), the chat histories kept by the chat service, and   *)
(* the locals of the generation in progress (generate_answer or the        *)
(* generate_answer_stream generator).  Generations keep all their data in  *)
(* locals and share only the append-only history, so the model holds the   *)
(* locals of one generation at a time; generations follow one another on   *)
(* any constructed instance, and constructions of instances interleave     *)
(* with each other and with the generation in progress.                    *)
(***************************************************************************)
EXTENDS Integers, Sequences, FiniteSets, TLC

\* ------------------------------------------------------------------ bounds
MaxInst == 2
MaxCalls == 2
MaxChunks == 2

Instances == 1..MaxInst

\* ------------------------------------------------- external collaborators
\* Python's None
None == [none |-> TRUE]

\* names a request can ask for
ModelNames == {"model-x", "model-z"}

\* UserUsage.get_user_settings(): the allow-list and the monthly ceiling
user_settings == [models |-> {"model-x"}, monthly_chat_credits |-> 2]

\* UserUsage.get_models(): the model registry with prices
all_models == {[name |-> "model-x", price |-> 1], [name |-> "model-z", price |-> 1]}

\* find_model_and_generate_metadata: the model selection, or ModelNotAllowed
find_model_and_generate_metadata(model_name, settings, models) ==
    IF model_name \in settings.models /\ \E m \in models : m.name = model_name
    THEN [ok |-> TRUE, name |-> model_name]
    ELSE [ok |-> FALSE, name |-> "ModelNotAllowed"]

\* compute_cost: the price of one invocation of the selected model
compute_cost(model_to_use, models) ==
    (CHOOSE m \in models : m.name = model_to_use.name).price

\* update_user_usage, its check: TRUE when it raises QuotaExceeded
quota_exceeded(monthly_usage, settings, cost) ==
    monthly_usage + cost > settings.monthly_chat_credits

\* model_service.get_model(name): the model's description
get_model(name) ==
    [description |-> "about " \o name, image_url |-> "img/" \o name,
     display_name |-> "Model " \o name]

\* generate_uuid_from_string: a deterministic id of a string
generate_uuid_from_string(s) == "uuid5:" \o s

\* the chat of an instance (the chat_id argument of __init__)
chat_id(i) == IF i = 1 THEN "chat-a" ELSE "chat-b"

\* the question of the n-th generation
question_of(n) == IF n = 1 THEN "What is 2+2?" ELSE "And 3+3?"

\* what the provider can deliver: ParsedRAGChunkResponse / ParsedRAGResponse
RAGResponseMetadata(s) == [sources |-> s, metadata_model |-> None]
PartialChunks ==
    { [answer |-> "",  last_chunk |-> FALSE, metadata |-> RAGResponseMetadata("s1")],
      [answer |-> "a", last_chunk |-> FALSE, metadata |-> RAGResponseMetadata("s1")],
      [answer |-> "b", last_chunk |-> FALSE, metadata |-> RAGResponseMetadata("s2")] }
TerminalChunks ==
    { [answer |-> "",  last_chunk |-> TRUE, metadata |-> RAGResponseMetadata("s2")],
      [answer |-> "4", last_chunk |-> TRUE, metadata |-> RAGResponseMetadata("s3")] }
SyncResponses ==
    { [answer |-> "4", metadata |-> RAGResponseMetadata("s1")],
      [answer |-> "4", metadata |-> None] }

\* ------------------------------------------------------------------ state
VARIABLES
    usage,      \* the user's ledger (sum of the recorded costs)
    svc,        \* the ChatLLMService instances
    history,    \* chat -> the Turns appended by update_chat_history
    gen         \* the generation in progress: its locals and what its caller saw

vars == <<usage, svc, history, gen>>

Chats == {chat_id(i) : i \in Instances}

NoService ==
    [st |-> "absent", requested |-> "", selected |-> "", model_to_use |-> "",
     cost |-> 0, err |-> "",
     quota_runs |-> 0, charged |-> 0, llm_calls |-> 0, generations |-> 0]

NoGeneration ==
    [n |-> 0, pc |-> "idle", kind |-> "", inst |-> 0, question |-> "",
     full_answer |-> "", consumed |-> <<>>, emitted |-> <<>>, saved |-> <<>>,
     events |-> <<>>, error |-> "", returned |-> None,
     message_id |-> 0, message_time |-> 0, hist0 |-> 0]

Init ==
    /\ usage \in 0..user_settings.monthly_chat_credits
    /\ svc = [i \in Instances |-> NoService]
    /\ history = [c \in Chats |-> <<>>]
    /\ gen = NoGeneration

\* ----------------------------------------------------------- construction
\* check_and_update_user_usage up to the check inside update_user_usage:
\* the selected model and its cost, or the error it raises
check_and_update_user_usage(model_name, monthly_usage) ==
    LET model_to_use == find_model_and_generate_metadata(model_name, user_settings, all_models)
    IN  IF ~model_to_use.ok
        THEN [ok |-> FALSE, err |-> "ModelNotAllowed", name |-> "", cost |-> 0]
        ELSE LET cost == compute_cost(model_to_use, all_models)
             IN  IF quota_exceeded(monthly_usage, user_settings, cost)
                 THEN [ok |-> FALSE, err |-> "QuotaExceeded", name |-> "", cost |-> 0]
                 ELSE [ok |-> TRUE, err |-> "", name |-> model_to_use.name, cost |-> cost]

\* variant: the cost is recorded before the checks
ChatLLMService_init_charge_first(i, model_name) ==
    /\ svc[i].st = "absent"
    /\ i > 1 => svc[i - 1].st # "absent"
    /\ LET r == check_and_update_user_usage(model_name, usage)
       IN  /\ svc' = [svc EXCEPT ![i] =
                  [@ EXCEPT !.st = IF r.ok THEN "ready" ELSE "rejected",
                            !.requested = model_name,
                            !.selected = r.name,
                            !.model_to_use = r.name,
                            !.cost = r.cost,
                            !.err = r.err,
                            !.quota_runs = @ + 1]]
           /\ usage' = usage + 1
    /\ UNCHANGED <<history, gen>>

\* ChatLLMService(current_user, model_name, chat_id, ...): __init__ runs the
\* quota resolution; a raise leaves no instance
ChatLLMService_init(i, model_name) ==
    /\ svc[i].st = "absent"
    /\ i > 1 => svc[i - 1].st # "absent"    \* instances are numbered as constructed
    /\ LET r == check_and_update_user_usage(model_name, usage)
       IN  svc' = [svc EXCEPT ![i] =
                [@ EXCEPT !.st = IF r.ok THEN "checked" ELSE "rejected",
                          !.requested = model_name,
                          !.selected = r.name,
                          !.cost = r.cost,
                          !.err = r.err,
                          !.quota_runs = @ + 1]]
    /\ UNCHANGED <<usage, history, gen>>

\* variant: the record step checks the ceiling again against the ledger of its moment
record_usage_rechecked(i) ==
    /\ svc[i].st = "checked"
    /\ ~quota_exceeded(usage, user_settings, svc[i].cost)
    /\ usage' = usage + svc[i].cost
    /\ svc' = [svc EXCEPT ![i] =
            [@ EXCEPT !.st = "ready",
                      !.model_to_use = svc[i].selected,
                      !.charged = svc[i].cost]]
    /\ UNCHANGED <<history, gen>>

\* variant: the cost is recorded twice
record_usage_twice(i) ==
    /\ svc[i].st = "checked"
    /\ usage' = usage + 2 * svc[i].cost
    /\ svc' = [svc EXCEPT ![i] =
            [@ EXCEPT !.st = "ready",
                      !.model_to_use = svc[i].selected,
                      !.charged = 2 * svc[i].cost]]
    /\ UNCHANGED <<history, gen>>

\* update_user_usage, its record: the cost is added to the ledger, then
\* check_and_update_user_usage returns and __init__ sets self.model_to_use
record_usage(i) ==
    /\ svc[i].st = "checked"
    /\ usage' = usage + svc[i].cost
    /\ svc' = [svc EXCEPT ![i] =
            [@ EXCEPT !.st = "ready",
                      !.model_to_use = svc[i].selected,
                      !.charged = svc[i].cost]]
    /\ UNCHANGED <<history, gen>>

\* ------------------------------------------------------------- generation
\* a generation can start when none is in progress
Over == {"idle", "returned", "raised", "done", "cancelled"}

\* datetime.datetime.now(): a logical time that advances with every call
\* and every chunk awaited
now(g) == g.n * (MaxChunks + 2) + Len(g.consumed)

\* uuid4(): an id no other call of uuid4 and no persisted Turn has
uuid4(g) == 2 * g.n

\* pydantic's model_dump of a RAGResponseMetadata
model_dump(metadata) ==
    [sources |-> metadata.sources, metadata_model |-> metadata.metadata_model]

\* variant: the synthetic id is derived from the session as well
ChatLLMMetadata_per_session(name) ==
    LET model_metadata == get_model(name)
    IN  [name |-> name,
         description |-> model_metadata.description,
         image_url |-> model_metadata.image_url,
         display_name |-> model_metadata.display_name,
         brain_id |-> generate_uuid_from_string(name \o chat_id(gen.inst)),
         brain_name |-> name]

\* ChatLLMMetadata(name=..., description=..., ..., brain_id=..., brain_name=...)
ChatLLMMetadata(name) ==
    LET model_metadata == get_model(name)
    IN  [name |-> name,
         description |-> model_metadata.description,
         image_url |-> model_metadata.image_url,
         display_name |-> model_metadata.display_name,
         brain_id |-> generate_uuid_from_string(name),
         brain_name |-> name]

\* the CreateChatHistory that save_answer builds
CreateChatHistory(i, question, answer) ==
    [chat_id |-> chat_id(i),
     user_message |-> question,
     assistant |-> answer.answer,
     brain_id |-> None,
     prompt_id |-> None,
     metadata |-> IF answer.metadata # None THEN model_dump(answer.metadata)
                  ELSE [empty |-> TRUE]]

\* chat_service.update_chat_history: the Turn it appends, with the id and the
\* time it generates; the Turn's answer and metadata are those of the
\* CreateChatHistory it was called with (kept in gen.saved)
new_chat_entry(g, entry) ==
    [message_id |-> uuid4(g) + 1, message_time |-> now([g EXCEPT !.consumed = <<>>]) + MaxChunks + 1,
     chat_id |-> entry.chat_id, user_message |-> entry.user_message]

\* chat_service.update_chat_history: the append, or PersistenceError (ok = FALSE)
update_chat_history(h, g, entry, ok) ==
    IF ok THEN [h EXCEPT ![entry.chat_id] = Append(@, new_chat_entry(g, entry))] ELSE h

\* variant: the answer is saved a second time
save_answer_twice(g, question, answer) ==
    [g EXCEPT !.saved = Append(Append(@, CreateChatHistory(g.inst, question, answer)),
                               CreateChatHistory(g.inst, question, answer)),
              !.events = Append(Append(@, "save_answer"), "save_answer")]

\* save_answer(question, answer): one call of update_chat_history
save_answer(g, question, answer) ==
    [g EXCEPT !.saved = Append(@, CreateChatHistory(g.inst, question, answer)),
              !.events = Append(@, "save_answer")]

\* the effect on the history of the save_answer calls made in a step from g to g1
persist(h, g, g1, ok) ==
    IF Len(g1.saved) > Len(g.saved)
    THEN update_chat_history(h, g, g1.saved[Len(g1.saved)], ok)
    ELSE h

\* GetChatHistoryOutput(assistant=..., metadata=..., **message_metadata)
GetChatHistoryOutput(chat, message_id, user_message, message_time, assistant, metadata) ==
    [chat_id |-> chat, message_id |-> message_id, user_message |-> user_message,
     message_time |-> message_time, prompt_title |-> None, brain_name |-> None,
     brain_id |-> None, assistant |-> assistant, metadata |-> metadata]

\* a new generation's locals
NewGeneration(i, kind) ==
    [NoGeneration EXCEPT !.n = gen.n + 1, !.pc = "called", !.kind = kind, !.inst = i,
                         !.question = question_of(gen.n + 1),
                         !.hist0 = Len(history[chat_id(i)])]

\* one more call of the LLM through instance i
CountLLM(i) == [svc EXCEPT ![i].llm_calls = @ + 1]

\* one more generation called on instance i
CountGeneration(i) == [svc EXCEPT ![i].generations = @ + 1]

\* ---- generate_answer
\* variant: generate_answer resolves the quota again
generate_answer_start_requota(i) ==
    /\ svc[i].st = "ready"
    /\ gen.pc \in Over
    /\ gen.n < MaxCalls
    /\ gen' = NewGeneration(i, "sync")
    /\ svc' = [CountGeneration(i) EXCEPT ![i].quota_runs = @ + 1]
    /\ UNCHANGED <<usage, history>>

\* generate_answer(question) is called; build_llm, get_chat_history, get_model
generate_answer_start(i) ==
    /\ svc[i].st = "ready"
    /\ gen.pc \in Over
    /\ gen.n < MaxCalls
    /\ gen' = NewGeneration(i, "sync")
    /\ svc' = CountGeneration(i)
    /\ UNCHANGED <<usage, history>>

\* chat_llm.answer raises InvocationError
generate_answer_raises ==
    /\ gen.kind = "sync" /\ gen.pc = "called"
    /\ svc' = CountLLM(gen.inst)
    /\ gen' = [gen EXCEPT !.pc = "raised", !.error = "InvocationError",
                          !.events = Append(@, "answer")]
    /\ UNCHANGED <<usage, history>>

\* the metadata enrichment of generate_answer
enrich_sync(parsed_response, name) ==
    IF parsed_response.metadata # None
    THEN [parsed_response EXCEPT !.metadata.metadata_model = ChatLLMMetadata(name)]
    ELSE parsed_response

\* variant: a PersistenceError is noted and the answer is returned all the same
generate_answer_finish_swallow(g, response, ok) ==
    LET parsed_response == enrich_sync(response, svc[g.inst].model_to_use)
        g1 == save_answer([g EXCEPT !.events = Append(@, "answer")], g.question, parsed_response)
        entry == new_chat_entry(g, g1.saved[Len(g1.saved)])
    IN  [g1 EXCEPT !.pc = "returned",
                   !.error = IF ok THEN "" ELSE "PersistenceError",
                   !.events = Append(@, "return"),
                   !.returned = GetChatHistoryOutput(
                       chat_id(g.inst), entry.message_id, g.question,
                       entry.message_time, parsed_response.answer,
                       IF parsed_response.metadata # None
                       THEN model_dump(parsed_response.metadata)
                       ELSE [empty |-> TRUE])]

\* generate_answer after the LLM answered: enrich, save, return
generate_answer_finish(g, response, ok) ==
    LET parsed_response == enrich_sync(response, svc[g.inst].model_to_use)
        g1 == save_answer([g EXCEPT !.events = Append(@, "answer")], g.question, parsed_response)
        entry == new_chat_entry(g, g1.saved[Len(g1.saved)])
    IN  IF ok
        THEN [g1 EXCEPT !.pc = "returned",
                        !.events = Append(@, "return"),
                        !.returned = GetChatHistoryOutput(
                            chat_id(g.inst), entry.message_id, g.question,
                            entry.message_time, parsed_response.answer,
                            IF parsed_response.metadata # None
                            THEN model_dump(parsed_response.metadata)
                            ELSE [empty |-> TRUE])]
        ELSE [g1 EXCEPT !.pc = "raised", !.error = "PersistenceError"]

\* chat_llm.answer returns; the rest of generate_answer runs
generate_answer_answers(response, ok) ==
    /\ gen.kind = "sync" /\ gen.pc = "called"
    /\ svc' = CountLLM(gen.inst)
    /\ gen' = generate_answer_finish(gen, response, ok)
    /\ history' = persist(history, gen, gen', ok)
    /\ UNCHANGED usage

\* ---- generate_answer_stream
\* generate_answer_stream(question) is called: the generator exists, its body
\* has not run
generate_answer_stream_start(i) ==
    /\ svc[i].st = "ready"
    /\ gen.pc \in Over
    /\ gen.n < MaxCalls
    /\ gen' = NewGeneration(i, "stream")
    /\ svc' = CountGeneration(i)
    /\ UNCHANGED <<usage, history>>

\* variant: answer_astream is called a second time
generate_answer_stream_setup_retry ==
    /\ gen.kind = "stream" /\ gen.pc = "called"
    /\ svc' = [svc EXCEPT ![gen.inst].llm_calls = @ + 2]
    /\ gen' = [gen EXCEPT !.pc = "looping",
                          !.full_answer = "",
                          !.message_id = uuid4(gen),
                          !.message_time = now(gen),
                          !.events = Append(Append(@, "answer_astream"), "answer_astream")]
    /\ UNCHANGED <<usage, history>>

\* the first pull runs the body up to the loop: build_llm, get_model,
\* get_chat_history, full_answer = "", message_metadata, answer_astream(...)
generate_answer_stream_setup ==
    /\ gen.kind = "stream" /\ gen.pc = "called"
    /\ svc' = CountLLM(gen.inst)
    /\ gen' = [gen EXCEPT !.pc = "looping",
                          !.full_answer = "",
                          !.message_id = uuid4(gen),
                          !.message_time = now(gen),
                          !.events = Append(@, "answer_astream")]
    /\ UNCHANGED <<usage, history>>

\* the event line of a record: f"data: {record.model_dump_json()}"
sse(record) == [line |-> "data: ", json |-> record]

\* variant: the id and the time are taken anew for every record
streamed_restamped(g, assistant, metadata) ==
    GetChatHistoryOutput(chat_id(g.inst), uuid4(g) + Len(g.consumed), g.question, now(g),
                         assistant, metadata)

\* the record of the generation's message_metadata with an answer and metadata
streamed(g, assistant, metadata) ==
    GetChatHistoryOutput(chat_id(g.inst), g.message_id, g.question, g.message_time,
                         assistant, metadata)

\* variant: the partial record carries the buffer, not the chunk's text
loop_body_cumulative(g, response) ==
    LET g0 == [g EXCEPT !.consumed = Append(@, response)]
        g1 == IF ~response.last_chunk
              THEN [g0 EXCEPT
                      !.full_answer = @ \o response.answer,
                      !.emitted = Append(@, sse(streamed(g, g.full_answer \o response.answer,
                                                         model_dump(response.metadata)))),
                      !.events = Append(@, "yield")]
              ELSE g0
    IN  IF response.last_chunk /\ g1.full_answer = ""
        THEN [g1 EXCEPT !.full_answer = @ \o response.answer]
        ELSE g1

\* variant: the terminal chunk's text is adopted whatever the buffer holds
loop_body_always_adopts(g, response) ==
    LET g0 == [g EXCEPT !.consumed = Append(@, response)]
    IN  IF ~response.last_chunk
        THEN [g0 EXCEPT
                !.full_answer = @ \o response.answer,
                !.emitted = Append(@, sse(streamed(g, response.answer,
                                                   model_dump(response.metadata)))),
                !.events = Append(@, "yield")]
        ELSE [g0 EXCEPT !.full_answer = @ \o response.answer]

\* the loop body for one response of answer_astream
loop_body(g, response) ==
    LET g0 == [g EXCEPT !.consumed = Append(@, response)]
        g1 == IF ~response.last_chunk
              THEN [g0 EXCEPT
                      !.full_answer = @ \o response.answer,
                      !.emitted = Append(@, sse(streamed(g, response.answer,
                                                         model_dump(response.metadata)))),
                      !.events = Append(@, "yield")]
              ELSE g0
    IN  IF response.last_chunk /\ g1.full_answer = ""
        THEN [g1 EXCEPT !.full_answer = @ \o response.answer]
        ELSE g1

\* variant: the last record is yielded before save_answer is called
after_loop_yield_first(g, ok) ==
    LET response == g.consumed[Len(g.consumed)]
        metadata == [model_dump(response.metadata) EXCEPT
                        !.metadata_model = ChatLLMMetadata(svc[g.inst].model_to_use)]
        streamed_chat_history == streamed(g, g.full_answer, model_dump(metadata))
        g1 == [g EXCEPT !.emitted = Append(@, sse(streamed_chat_history)),
                        !.events = Append(@, "yield_final")]
        g2 == save_answer(g1, g.question, [answer |-> g.full_answer, metadata |-> metadata])
    IN  IF ok
        THEN [g2 EXCEPT !.pc = "final"]
        ELSE [g2 EXCEPT !.pc = "raised", !.error = "PersistenceError"]

\* variant: the final record keeps the terminal chunk's own metadata
after_loop_record_unenriched(g, ok) ==
    LET response == g.consumed[Len(g.consumed)]
        metadata == [model_dump(response.metadata) EXCEPT
                        !.metadata_model = ChatLLMMetadata(svc[g.inst].model_to_use)]
        streamed_chat_history == streamed(g, g.full_answer, model_dump(response.metadata))
        g1 == save_answer(g, g.question, [answer |-> g.full_answer, metadata |-> metadata])
    IN  IF ok
        THEN [g1 EXCEPT !.pc = "final",
                        !.emitted = Append(@, sse(streamed_chat_history)),
                        !.events = Append(@, "yield_final")]
        ELSE [g1 EXCEPT !.pc = "raised", !.error = "PersistenceError"]

\* the code after the loop: the final record, the enrichment, save_answer and
\* the last yield (ok = FALSE: update_chat_history raises PersistenceError)
after_loop(g, ok) ==
    LET response == g.consumed[Len(g.consumed)]
        metadata == [model_dump(response.metadata) EXCEPT
                        !.metadata_model = ChatLLMMetadata(svc[g.inst].model_to_use)]
        streamed_chat_history == streamed(g, g.full_answer, model_dump(metadata))
        g1 == save_answer(g, g.question, [answer |-> g.full_answer, metadata |-> metadata])
    IN  IF ok
        THEN [g1 EXCEPT !.pc = "final",
                        !.emitted = Append(@, sse(streamed_chat_history)),
                        !.events = Append(@, "yield_final")]
        ELSE [g1 EXCEPT !.pc = "raised", !.error = "PersistenceError"]

\* the number of non-terminal chunks consumed
Partials(g) == Cardinality({k \in 1..Len(g.consumed) : ~g.consumed[k].last_chunk})

\* a pull delivers a non-terminal chunk: the body runs to the yield in the loop
stream_chunk(response) ==
    /\ gen.kind = "stream" /\ gen.pc \in {"looping", "yielded"}
    /\ Partials(gen) < MaxChunks
    /\ gen' = [loop_body(gen, response) EXCEPT !.pc = "yielded"]
    /\ history' = persist(history, gen, gen', TRUE)
    /\ UNCHANGED <<usage, svc>>

\* variant: the error handler saves what was accumulated before re-raising
stream_raises_saving ==
    /\ gen.kind = "stream" /\ gen.pc \in {"looping", "yielded"}
    /\ gen' = [save_answer(gen, gen.question,
                           [answer |-> gen.full_answer, metadata |-> None])
                  EXCEPT !.pc = "raised", !.error = "InvocationError"]
    /\ history' = persist(history, gen, gen', TRUE)
    /\ UNCHANGED <<usage, svc>>

\* variant: a failed model call gives the reserved cost back
stream_raises_refunding ==
    /\ gen.kind = "stream" /\ gen.pc \in {"looping", "yielded"}
    /\ gen' = [gen EXCEPT !.pc = "raised", !.error = "InvocationError"]
    /\ usage' = usage - svc[gen.inst].charged
    /\ svc' = [svc EXCEPT ![gen.inst].charged = 0]
    /\ UNCHANGED history

\* a pull finds answer_astream raising InvocationError
stream_raises ==
    /\ gen.kind = "stream" /\ gen.pc \in {"looping", "yielded"}
    /\ gen' = [gen EXCEPT !.pc = "raised", !.error = "InvocationError"]
    /\ UNCHANGED <<usage, svc, history>>

\* a pull delivers the terminal chunk, after which answer_astream is
\* exhausted: the loop ends and the body runs to the last yield
stream_terminal(response, ok) ==
    /\ gen.kind = "stream" /\ gen.pc \in {"looping", "yielded"}
    /\ gen' = after_loop(loop_body(gen, response), ok)
    /\ history' = persist(history, gen, gen', ok)
    /\ UNCHANGED <<usage, svc>>

\* variant: the pull after the last yield emits the final record once more
stream_end_reyields ==
    /\ gen.kind = "stream" /\ gen.pc = "final"
    /\ gen' = [gen EXCEPT !.pc = "done",
                          !.emitted = Append(@, gen.emitted[Len(gen.emitted)]),
                          !.events = Append(@, "yield_final")]
    /\ UNCHANGED <<usage, svc, history>>

\* a pull after the last yield: the generator returns
stream_end ==
    /\ gen.kind = "stream" /\ gen.pc = "final"
    /\ gen' = [gen EXCEPT !.pc = "done"]
    /\ UNCHANGED <<usage, svc, history>>

\* variant: closing the generator saves what was accumulated (a finally block)
stream_cancel_finally ==
    /\ gen.kind = "stream" /\ gen.pc \in {"called", "yielded", "final"}
    /\ gen' = [(IF gen.pc = "yielded"
                THEN save_answer(gen, gen.question,
                                 [answer |-> gen.full_answer, metadata |-> None])
                ELSE gen)
                  EXCEPT !.pc = "cancelled"]
    /\ history' = persist(history, gen, gen', TRUE)
    /\ UNCHANGED <<usage, svc>>

\* the consumer stops pulling and the suspended generator is closed
stream_cancel ==
    /\ gen.kind = "stream" /\ gen.pc \in {"called", "yielded", "final"}
    /\ gen' = [gen EXCEPT !.pc = "cancelled"]
    /\ UNCHANGED <<usage, svc, history>>

\* ------------------------------------------------------------------- spec
Next ==
    \/ \E i \in Instances, m \in ModelNames : ChatLLMService_init(i, m)
    \/ \E i \in Instances : record_usage(i)
    \/ \E i \in Instances : generate_answer_start(i)
    \/ generate_answer_raises
    \/ \E r \in SyncResponses, ok \in BOOLEAN : generate_answer_answers(r, ok)
    \/ \E i \in Instances : generate_answer_stream_start(i)
    \/ generate_answer_stream_setup
    \/ \E r \in PartialChunks : stream_chunk(r)
    \/ stream_raises
    \/ \E r \in TerminalChunks, ok \in BOOLEAN : stream_terminal(r, ok)
    \/ stream_end
    \/ stream_cancel

Spec == Init /\ [][Next]_vars

\* ------------------------------------- a provider that breaks its contract
\* a pull finds answer_astream exhausted after a chunk that was not terminal:
\* the loop ends and the code after it runs on the last response
stream_exhausted(ok) ==
    /\ gen.kind = "stream" /\ gen.pc = "yielded"
    /\ gen' = after_loop(gen, ok)
    /\ history' = persist(history, gen, gen', ok)
    /\ UNCHANGED <<usage, svc>>

\* the first pull finds answer_astream exhausted: the loop never bound
\* response, and the code after it raises UnboundLocalError
stream_exhausted_empty ==
    /\ gen.kind = "stream" /\ gen.pc = "looping"
    /\ gen' = [gen EXCEPT !.pc = "raised", !.error = "UnboundLocalError"]
    /\ UNCHANGED <<usage, svc, history>>

\* a pull delivers a chunk flagged terminal and answer_astream goes on: the
\* body runs for it without a yield, then for the next chunk up to its yield
stream_terminal_then_chunk(terminal, response) ==
    /\ gen.kind = "stream" /\ gen.pc \in {"looping", "yielded"}
    /\ Partials(gen) < MaxChunks
    /\ \A k \in 1..Len(gen.consumed) : ~gen.consumed[k].last_chunk
    /\ gen' = [loop_body(loop_body(gen, terminal), response) EXCEPT !.pc = "yielded"]
    /\ history' = persist(history, gen, gen', TRUE)
    /\ UNCHANGED <<usage, svc>>

NextAnyProvider ==
    \/ Next
    \/ \E ok \in BOOLEAN : stream_exhausted(ok)
    \/ stream_exhausted_empty
    \/ \E t \in TerminalChunks, r \in PartialChunks : stream_terminal_then_chunk(t, r)

SpecAnyProvider == Init /\ [][NextAnyProvider]_vars

\* ----------------------------------------------------------------- claims
RECURSIVE ConcatPartials(_)
\* the texts of the non-terminal chunks of a sequence, concatenated in order
ConcatPartials(cs) ==
    IF cs = <<>> THEN ""
    ELSE (IF Head(cs).last_chunk THEN "" ELSE Head(cs).answer) \o ConcatPartials(Tail(cs))

\* the number of events of a kind in the generation in progress
Count(e) == Cardinality({k \in 1..Len(gen.events) : gen.events[k] = e})

\* the chat of the generation in progress
Chat == chat_id(gen.inst)

\* a terminal chunk has been consumed
TerminalConsumed == \E k \in 1..Len(gen.consumed) : gen.consumed[k].last_chunk

\* C1: a generate_answer that returned and a generate_answer_stream consumed
\* to exhaustion each called the persister exactly once, and the chat's
\* history holds exactly one Turn more than when the call started.
C1_ExactlyOncePersisted ==
    gen.pc \in {"returned", "done"} =>
        /\ Len(gen.saved) = 1
        /\ Count("save_answer") = 1
        /\ Len(history[Chat]) = gen.hist0 + 1

C1_Witness ==
    /\ gen.pc = "done"
    /\ gen.hist0 = 1
    /\ Len(history[Chat]) = 2

\* the state of a generation whose model call raised InvocationError: the
\* persister was not called, no Turn was appended, nothing was returned, and
\* the records emitted are exactly those of the chunks consumed before
C2_InvocationErrorState ==
    gen.error = "InvocationError" =>
        /\ gen.pc = "raised"
        /\ gen.saved = <<>>
        /\ Count("save_answer") = 0
        /\ Len(history[Chat]) = gen.hist0
        /\ gen.returned = None
        /\ ~TerminalConsumed
        /\ Len(gen.emitted) = Len(gen.consumed)

\* C2: when the model call raises InvocationError the persister is not
\* called and no Turn is appended, the call ends raising it, the records
\* emitted are exactly those of the chunks consumed before, and nothing of
\* that generation changes afterwards (no further record, no later save).
C2_InvocationErrorNoPersist ==
    /\ []C2_InvocationErrorState
    /\ [][gen.error = "InvocationError" /\ gen'.n = gen.n => gen' = gen]_vars

C2_Witness ==
    /\ gen.kind = "stream"
    /\ gen.error = "InvocationError"
    /\ Len(gen.emitted) = 2

\* C3: the quota resolution of an instance runs once, in its construction;
\* an instance the LLM was called through, or a generation was called on,
\* is constructed and resolved its quota exactly once.
C3_QuotaOnceBeforeLLM ==
    \A i \in Instances :
        /\ svc[i].quota_runs <= 1
        /\ svc[i].st # "absent" => svc[i].quota_runs = 1
        /\ (svc[i].llm_calls > 0 \/ svc[i].generations > 0) =>
              svc[i].st = "ready" /\ svc[i].quota_runs = 1

C3_Witness ==
    \E i \in Instances : svc[i].llm_calls = 2 /\ svc[i].quota_runs = 1

\* a rejected construction charged nothing and no LLM call and no generation
\* went through it
C4_RejectedState ==
    \A i \in Instances :
        svc[i].st = "rejected" =>
            /\ svc[i].err \in {"ModelNotAllowed", "QuotaExceeded"}
            /\ svc[i].charged = 0
            /\ svc[i].llm_calls = 0
            /\ svc[i].generations = 0
            /\ gen.inst # i

\* C4: a construction rejected with ModelNotAllowed or QuotaExceeded leaves
\* the ledger as it was, and no LLM call and no generation (hence no
\* persistence) ever goes through the rejected instance.
C4_RejectedNoEffect ==
    /\ []C4_RejectedState
    /\ [][\A i \in Instances :
            svc[i].st # "rejected" /\ svc'[i].st = "rejected" =>
                usage' = usage /\ history' = history]_vars

C4_Witness ==
    \E i, j \in Instances :
        /\ svc[i].st = "rejected" /\ svc[i].err = "QuotaExceeded"
        /\ svc[j].st = "ready" /\ svc[j].llm_calls > 0

\* C5: the text a fully consumed stream persisted is the in-order
\* concatenation of the texts of the non-terminal chunks or, when that is
\* empty, the terminal chunk's text.
C5_PersistedText ==
    gen.kind = "stream" /\ gen.pc = "done" =>
        gen.saved[1].assistant =
            IF ConcatPartials(gen.consumed) # ""
            THEN ConcatPartials(gen.consumed)
            ELSE gen.consumed[Len(gen.consumed)].answer

C5_Witness ==
    /\ gen.kind = "stream" /\ gen.pc = "done"
    /\ Len(gen.consumed) = 3
    /\ ConcatPartials(gen.consumed) = ""
    /\ gen.saved[1].assistant = "4"

\* the k-th record emitted is the record of the k-th chunk, a non-terminal one
PartialRecord(k) ==
    k \in 1..Len(gen.emitted) /\ k <= Len(gen.consumed) /\ ~gen.consumed[k].last_chunk

\* C6 as stated: the record emitted for a non-terminal chunk carries the
\* concatenation of the texts of the non-terminal chunks consumed so far,
\* and the chunk's metadata.
C6_RecordCumulative ==
    \A k \in 1..Len(gen.emitted) :
        PartialRecord(k) =>
            /\ gen.emitted[k].json.assistant = ConcatPartials(SubSeq(gen.consumed, 1, k))
            /\ gen.emitted[k].json.metadata = model_dump(gen.consumed[k].metadata)

\* C6 amended: the record emitted for a non-terminal chunk carries that
\* chunk's own text, and the chunk's metadata.
C6_RecordCarriesChunkText ==
    \A k \in 1..Len(gen.emitted) :
        PartialRecord(k) =>
            /\ gen.emitted[k].json.assistant = gen.consumed[k].answer
            /\ gen.emitted[k].json.metadata = model_dump(gen.consumed[k].metadata)

C6_Witness ==
    /\ PartialRecord(2)
    /\ gen.consumed[1].answer = "a"
    /\ gen.emitted[2].json.assistant = "b"
    /\ gen.full_answer = "ab"

\* C7 as stated: after a PersistenceError the caller has the answer (the
\* returned record, or the final record of the stream), and the persister
\* was called once.
C7_AnswerDespitePersistenceError ==
    gen.error = "PersistenceError" =>
        /\ Len(gen.saved) = 1
        /\ gen.kind = "sync" => gen.returned # None
        /\ gen.kind = "stream" => Count("yield_final") = 1

\* C7 amended: after a PersistenceError the call ends raising it: nothing is
\* returned, the stream emits no final record (the records of the
\* non-terminal chunks stay delivered), no Turn is appended, and the
\* persister was called once.
C7_PersistenceErrorRaises ==
    gen.error = "PersistenceError" =>
        /\ gen.pc = "raised"
        /\ Len(gen.saved) = 1
        /\ Count("save_answer") = 1
        /\ gen.returned = None
        /\ Count("yield_final") = 0
        /\ Len(history[Chat]) = gen.hist0
        /\ gen.kind = "stream" => Len(gen.emitted) = Len(gen.consumed) - 1

C7_Witness ==
    /\ gen.kind = "stream"
    /\ gen.error = "PersistenceError"
    /\ Len(gen.emitted) = 2

\* C8 as stated: in a stream the persister is called after the final record
\* was emitted.
C8_FinalRecordBeforePersist ==
    gen.kind = "stream" =>
        \A k \in 1..Len(gen.events) :
            gen.events[k] = "save_answer" =>
                \E j \in 1..(k - 1) : gen.events[j] = "yield_final"

\* C8 amended: in a stream the persister is called first and the final
\* record is emitted after it: when the final record is out, the single
\* Turn has been persisted.
C8_PersistBeforeFinalRecord ==
    gen.kind = "stream" =>
        \A k \in 1..Len(gen.events) :
            gen.events[k] = "yield_final" =>
                /\ \E j \in 1..(k - 1) : gen.events[j] = "save_answer"
                /\ Len(gen.saved) = 1
                /\ Len(history[Chat]) = gen.hist0 + 1

C8_Witness ==
    /\ gen.kind = "stream" /\ gen.pc = "final"
    /\ gen.events[Len(gen.events)] = "yield_final"
    /\ Len(history[Chat]) = gen.hist0 + 1

\* a stream whose terminal chunk has not been consumed has not called the
\* persister
C9_NoTerminalNoPersist ==
    gen.kind = "stream" /\ ~TerminalConsumed =>
        /\ gen.saved = <<>>
        /\ Count("save_answer") = 0
        /\ Len(history[Chat]) = gen.hist0

\* C9: a stream whose consumer stopped pulling before the terminal chunk was
\* consumed has not called the persister, and nothing of it changes any
\* more, so it never does.
C9_CancelledNeverPersists ==
    /\ []C9_NoTerminalNoPersist
    /\ [][gen.pc = "cancelled" /\ gen'.n = gen.n =>
            gen' = gen /\ history' = history]_vars

C9_Witness ==
    /\ gen.kind = "stream" /\ gen.pc = "cancelled"
    /\ ~TerminalConsumed
    /\ Len(gen.emitted) = 2

\* C10 as stated: at most one model call is ever made through an instance.
C10_SingleUse ==
    \A i \in Instances : svc[i].llm_calls <= 1

\* C10 amended: nothing limits the generations called on an instance; each
\* generation makes at most one model call, so the model calls through an
\* instance never exceed the generations called on it, all of them on the
\* one reservation of its construction.
C10_OneModelCallPerGeneration ==
    /\ Count("answer") + Count("answer_astream") <= 1
    /\ \A i \in Instances :
          /\ svc[i].llm_calls <= svc[i].generations
          /\ svc[i].quota_runs <= 1
          /\ svc[i].charged <= svc[i].cost

C10_Witness ==
    \E i \in Instances :
        svc[i].generations = 2 /\ svc[i].llm_calls = 2 /\ svc[i].charged = 1

\* the model block of a dumped metadata names the model m
HasModelBlock(metadata, m) ==
    /\ metadata # [empty |-> TRUE]
    /\ metadata.metadata_model # None
    /\ metadata.metadata_model.name = m

\* C11 as stated: what a successful generate_answer returned and persisted
\* carries a model block naming the resolved model, whatever metadata the
\* provider returned.
C11_AlwaysModelBlock ==
    gen.kind = "sync" /\ gen.pc = "returned" =>
        /\ HasModelBlock(gen.saved[1].metadata, svc[gen.inst].model_to_use)
        /\ HasModelBlock(gen.returned.metadata, svc[gen.inst].model_to_use)

\* the last record a stream emitted
FinalRecord == gen.emitted[Len(gen.emitted)].json

\* C12: in a fully consumed generate_answer_stream the final record and the
\* persisted Turn carry the same full answer text and the same metadata: the
\* terminal chunk's metadata with the model block of the resolved model.
C12_FinalRecordAgreesWithTurn ==
    gen.kind = "stream" /\ gen.pc \in {"final", "done"} =>
        LET terminal == gen.consumed[Len(gen.consumed)]
        IN  /\ Len(gen.saved) = 1
            /\ FinalRecord.assistant = gen.saved[1].assistant
            /\ FinalRecord.assistant = gen.full_answer
            /\ FinalRecord.metadata = gen.saved[1].metadata
            /\ gen.saved[1].metadata =
                 [sources |-> terminal.metadata.sources,
                  metadata_model |-> ChatLLMMetadata(svc[gen.inst].model_to_use)]

C12_Witness ==
    /\ gen.kind = "stream" /\ gen.pc = "done"
    /\ Len(gen.consumed) = 3
    /\ FinalRecord.assistant = "ab"
    /\ FinalRecord.metadata.sources = "s3"
    /\ FinalRecord.metadata.metadata_model.name = "model-x"
    /\ gen.saved[1].assistant = "ab"

\* C13: all records emitted by one generate_answer_stream call, partial and
\* final, carry the same chat id, message id, question and message time: those
\* fixed before the first chunk was requested.
C13_RecordsShareMessageMetadata ==
    gen.kind = "stream" =>
        \A k \in 1..Len(gen.emitted) :
            LET record == gen.emitted[k].json
            IN  /\ record.chat_id = chat_id(gen.inst)
                /\ record.message_id = gen.message_id
                /\ record.user_message = gen.question
                /\ record.message_time = gen.message_time
                /\ record.chat_id = gen.emitted[1].json.chat_id
                /\ record.message_id = gen.emitted[1].json.message_id
                /\ record.user_message = gen.emitted[1].json.user_message
                /\ record.message_time = gen.emitted[1].json.message_time

C13_Witness ==
    /\ gen.kind = "stream" /\ gen.pc = "final"
    /\ Len(gen.emitted) = 3
    /\ gen.n = 2
    /\ gen.emitted[3].json.message_time = gen.emitted[1].json.message_time
    /\ gen.emitted[3].json.message_id = gen.emitted[1].json.message_id

\* the model blocks the current generation placed in a record it emitted or
\* returned, or in what it handed to update_chat_history
ModelBlocks ==
    LET metadatas == {gen.saved[k].metadata : k \in 1..Len(gen.saved)}
                     \cup {gen.emitted[k].json.metadata : k \in 1..Len(gen.emitted)}
                     \cup (IF gen.returned # None THEN {gen.returned.metadata} ELSE {})
        filled == {m \in metadatas : m # [empty |-> TRUE]}
    IN  {m.metadata_model : m \in {x \in filled : x.metadata_model # None}}

\* C14: the synthetic id in a model block is generate_uuid_from_string of the
\* resolved model name and of nothing else, in generate_answer and in
\* generate_answer_stream, whatever the instance, the session, the question or
\* the number of generations before it.
C14_SyntheticIdOfModelName ==
    \A block \in ModelBlocks :
        /\ block.name = svc[gen.inst].model_to_use
        /\ block.brain_id = generate_uuid_from_string(block.name)

C14_Witness ==
    /\ gen.n = 2 /\ gen.inst = 2 /\ gen.kind = "stream" /\ gen.pc = "final"
    /\ svc[1].generations = 1 /\ svc[1].model_to_use = svc[2].model_to_use
    /\ \E block \in ModelBlocks : block.brain_id = generate_uuid_from_string("model-x")

\* the price of a model in the registry
PriceOf(name) == (CHOOSE m \in all_models : m.name = name).price

\* every instance that exists was asked for the model it resolved and has
\* recorded that model's price
C15_ReadyState ==
    \A i \in Instances :
        svc[i].st = "ready" =>
            /\ svc[i].model_to_use = svc[i].requested
            /\ svc[i].charged = PriceOf(svc[i].requested)
            /\ svc[i].quota_runs = 1

\* C15: a construction asking for a model of the allow-list while the ledger
\* plus the model's cost is under the ceiling passes the check; it then
\* becomes an instance whose model_to_use is the requested name, and its cost
\* is added to the ledger once, in that step and in no other.
C15_AllowedUnderCeilingSucceeds ==
    /\ []C15_ReadyState
    /\ [][\A i \in Instances :
            /\ (/\ svc[i].st = "absent" /\ svc'[i].st # "absent"
                /\ svc'[i].requested \in user_settings.models
                /\ usage + PriceOf(svc'[i].requested) < user_settings.monthly_chat_credits)
               => /\ svc'[i].st = "checked"
                  /\ svc'[i].selected = svc'[i].requested
                  /\ svc'[i].cost = PriceOf(svc'[i].requested)
            /\ (svc[i].st = "checked" /\ svc'[i] # svc[i])
               => /\ svc'[i].st = "ready"
                  /\ svc'[i].model_to_use = svc[i].requested
                  /\ usage' = usage + PriceOf(svc[i].requested)
            /\ svc[i].st = "ready"
               => svc'[i].st = "ready" /\ svc'[i].charged = svc[i].charged]_vars

C15_Witness ==
    \E i \in Instances :
        /\ svc[i].st = "ready" /\ svc[i].requested = "model-x"
        /\ svc[i].model_to_use = "model-x"
        /\ svc[i].charged = 1 /\ usage = 1
        /\ svc[i].generations = 1

\* C16: the quota resolution is a check followed by a separate record: a
\* construction that passed the check records its cost whatever the ledger
\* has become since, so constructions that pass the check on the same ledger
\* all succeed, and the ledger can end above the ceiling (C16_Witness).
C16_RecordFollowsCheckUnguarded ==
    \A i \in Instances :
        svc[i].st = "checked" =>
            /\ ENABLED record_usage(i)
            /\ svc[i].charged = 0
            /\ svc[i].cost = PriceOf(svc[i].requested)

C16_Witness ==
    \E i, j \in Instances :
        /\ i # j
        /\ svc[i].st = "ready" /\ svc[j].st = "ready"
        /\ svc[i].charged = 1 /\ svc[j].charged = 1
        /\ usage = 3
        /\ usage > user_settings.monthly_chat_credits

\* the buffer after the k-th chunk consumed, by the rules of the loop
TextUpTo(k) ==
    LET partials == ConcatPartials(SubSeq(gen.consumed, 1, k))
    IN  IF gen.consumed[k].last_chunk /\ partials = "" THEN gen.consumed[k].answer
        ELSE partials

\* C17: whatever the provider delivers, generate_answer_stream calls the
\* persister only if a chunk flagged terminal has been consumed (a provider
\* exhausted without one leaves zero Turns), and the buffer holds no text of
\* a chunk consumed after a terminal-flagged one.
C17_PersistsOnlyAfterTerminal ==
    gen.kind = "stream" =>
        /\ (gen.saved # <<>> \/ Len(history[Chat]) > gen.hist0) => TerminalConsumed
        /\ \A k \in 1..Len(gen.consumed) :
              gen.consumed[k].last_chunk => gen.full_answer = TextUpTo(k)

\* C18 as stated: once the n non-terminal chunks and the terminal chunk of a
\* provider stream are consumed, n+1 records have been emitted.
C18_RecordForEveryChunk ==
    gen.kind = "stream" /\ TerminalConsumed => Len(gen.emitted) = Len(gen.consumed)

\* the records of a stream, chunk by chunk: while accumulating, one record per
\* chunk consumed, carrying that chunk; the terminal chunk is the last one
\* consumed, and with it the final record is emitted unless save_answer raised
C18_RecordsFollowChunks ==
    gen.kind = "stream" =>
        /\ gen.pc \in {"called", "looping"} => gen.emitted = <<>> /\ gen.consumed = <<>>
        /\ \A k \in 1..Len(gen.consumed) :
              gen.consumed[k].last_chunk <=> (k = Len(gen.consumed) /\ gen.pc \notin {"yielded"}
                                               /\ TerminalConsumed)
        /\ \A k \in 1..Len(gen.consumed) :
              ~gen.consumed[k].last_chunk =>
                  /\ k <= Len(gen.emitted)
                  /\ gen.emitted[k].json.assistant = gen.consumed[k].answer
        /\ ~TerminalConsumed => Len(gen.emitted) = Len(gen.consumed)
        /\ TerminalConsumed =>
              IF gen.error = "PersistenceError"
              THEN gen.pc = "raised" /\ Len(gen.emitted) = Len(gen.consumed) - 1
              ELSE /\ gen.pc \in {"final", "done", "cancelled"}
                   /\ Len(gen.emitted) = Len(gen.consumed)
                   /\ FinalRecord.assistant = gen.full_answer
                   /\ gen.events[Len(gen.events)] = "yield_final"
                   /\ Count("yield_final") = 1

\* C18 amended: generate_answer_stream only moves from accumulating to the
\* final record to the end: for n non-terminal chunks followed by the
\* terminal chunk it emits the i-th record after chunk i is consumed and
\* before chunk i+1 is requested, and the (n+1)-th, final record with the
\* terminal chunk unless save_answer raises PersistenceError, in which case
\* only the n records are emitted; after the final record, an error or a
\* cancellation nothing is consumed or emitted.
C18_AccumulateFinalizeDone ==
    /\ []C18_RecordsFollowChunks
    /\ [][gen.kind = "stream" /\ gen'.n = gen.n /\ gen' # gen =>
            /\ gen.pc \notin {"done", "raised", "cancelled"}
            /\ gen.pc = "called" =>
                  /\ gen'.pc \in {"looping", "cancelled"}
                  /\ gen'.emitted = <<>> /\ gen'.consumed = <<>>
            /\ gen.pc = "final" =>
                  /\ gen'.pc \in {"done", "cancelled"}
                  /\ gen'.emitted = gen.emitted /\ gen'.consumed = gen.consumed
                  /\ gen'.saved = gen.saved
            /\ gen.pc \in {"looping", "yielded"} =>
                  /\ gen'.pc \in {"yielded", "final", "raised", "cancelled"}
                  /\ Len(gen'.consumed) <= Len(gen.consumed) + 1
                  /\ Len(gen'.emitted) <= Len(gen.emitted) + 1]_vars

C18_Witness ==
    /\ gen.kind = "stream" /\ gen.pc = "done"
    /\ Len(gen.consumed) = 3 /\ Len(gen.emitted) = 3
    /\ gen.events = <<"answer_astream", "yield", "yield", "save_answer", "yield_final">>

\* C19: once an instance is constructed nothing changes its model_to_use or
\* what it charged, and no step of a generation (a start, a model call that
\* answers or raises, a chunk, a save that works or raises, an end, a
\* cancellation) changes the ledger or any instance's resolved model: the
\* ledger only moves when a construction records its cost.
C19_GenerationLeavesQuotaAlone ==
    /\ [][\A i \in Instances :
            svc[i].st = "ready" =>
                /\ svc'[i].st = "ready"
                /\ svc'[i].model_to_use = svc[i].model_to_use
                /\ svc'[i].selected = svc[i].selected
                /\ svc'[i].cost = svc[i].cost
                /\ svc'[i].charged = svc[i].charged
                /\ svc'[i].quota_runs = svc[i].quota_runs]_vars
    /\ [][gen' # gen =>
            /\ usage' = usage
            /\ \A i \in Instances :
                  /\ svc'[i].st = svc[i].st
                  /\ svc'[i].model_to_use = svc[i].model_to_use
                  /\ svc'[i].charged = svc[i].charged]_vars
    /\ [][usage' # usage =>
            \E i \in Instances :
                /\ svc[i].st = "checked" /\ svc'[i].st = "ready"
                /\ usage' = usage + svc[i].cost]_vars

C19_Witness ==
    /\ gen.n = 2 /\ gen.kind = "stream" /\ gen.error = "PersistenceError"
    /\ svc[gen.inst].generations = 2
    /\ svc[gen.inst].charged = 1 /\ svc[gen.inst].model_to_use = "model-x"
    /\ usage = 1
    /\ \A i \in Instances : i # gen.inst => svc[i].st = "absent"

====
